---- MODULE Spec2Model ----
(***************************************************************************)
(* ExCrawler (src/excrawler.py): shot discovery (getShotList), the crawl   *)
(* loop (findShotsWithObjects), the per-shot extraction through a          *)
(* two-thread pool (shotXML_objectsGet / getObjInfo), the terminal report  *)
(* (printItem) and the sqlite sink (sqliteDB).                             *)
(*                                                                         *)
(* Python strings are modelled as tuples of one-character strings, so that *)
(* substring tests, lower(), split(), int() and string ordering are        *)
(* computed the way the interpreter computes them.                         *)
(***************************************************************************)
EXTENDS Integers, Sequences, FiniteSets, TLC

VARIABLES
    args,       \* the parsed command line (args.show is always given)
    fs,         \* the file system: the show directory and the shot documents
    pc,         \* position of the driver thread
    run,        \* which invocation of the program this is (1, 2, ...)
    shotList,   \* self.shotList
    included,   \* local shotList of getShotList after the include step (l.73)
    todo,       \* the part of sorted(self.shotList) the for loop has not reached
    shot,       \* the loop variable of findShotsWithObjects
    childList,  \* local childList of shotXML_objectsGet
    taskNext,   \* ThreadPool: index of the next task in the pool's queue
    worker,     \* ThreadPool: the task each worker thread is running (0: idle)
    result,     \* ThreadPool: the map result slots
    objData,    \* local objData of shotXML_objectsGet
    nextRow,    \* index in objData of the next record to insert (l.139)
    objects,    \* local objects of findShotsWithObjects
    out,        \* lines printed to stdout by this invocation
    db,         \* the sqlite file: exists, committed rows, open transaction
    commits,    \* number of commit() calls of this invocation
    rowsAtEnd   \* history: committed row count at the end of each invocation

vars == <<args, fs, pc, run, shotList, included, todo, shot, childList,
          taskNext, worker, result, objData, nextRow, objects, out, db,
          commits, rowsAtEnd>>

-----------------------------------------------------------------------------
(* Bounds of the model *)

\* number of invocations of the program against the same store
MaxRuns == 2
\* longest document, in Object nodes
MaxNodes == 3

\* ThreadPool(processes=2)
PoolSize == 2

-----------------------------------------------------------------------------
(* Python strings *)

\* the characters used, in code point order
Ascii == <<" ", "\"", "-", "0", "1", "2", "3", "9", "A", "L", "N",
           "R", "a", "b", "c", "e", "g", "h", "i", "l", "m", "n", "o", "s",
           "x", "y", "z">>

Ord(c) == CHOOSE i \in DOMAIN Ascii : Ascii[i] = c

UpperCase == <<"A", "L", "N", "R">>
LowerCase == <<"a", "l", "n", "r">>

\* str.lower() on one character
LowerChar(c) ==
    IF \E i \in DOMAIN UpperCase : UpperCase[i] = c
    THEN LowerCase[CHOOSE i \in DOMAIN UpperCase : UpperCase[i] = c]
    ELSE c

\* str.lower()
Lower(s) == [i \in DOMAIN s |-> LowerChar(s[i])]

\* sub in s
Contains(sub, s) ==
    \E k \in 0..(Len(s) - Len(sub)) :
        \A i \in 1..Len(sub) : s[k + i] = sub[i]

\* str.split(): split on runs of whitespace, no empty pieces
RECURSIVE SplitFrom(_, _, _)
SplitFrom(s, i, word) ==
    IF i > Len(s)
    THEN IF word = <<>> THEN <<>> ELSE <<word>>
    ELSE IF s[i] = " "
         THEN (IF word = <<>> THEN <<>> ELSE <<word>>) \o SplitFrom(s, i + 1, <<>>)
         ELSE SplitFrom(s, i + 1, Append(word, s[i]))

Split(s) == SplitFrom(s, 1, <<>>)

\* s < t for two strings (code point order, a proper prefix is smaller)
RECURSIVE StrLess(_, _)
StrLess(s, t) ==
    IF t = <<>> THEN FALSE
    ELSE IF s = <<>> THEN TRUE
    ELSE IF s[1] # t[1] THEN Ord(s[1]) < Ord(t[1])
    ELSE StrLess(Tail(s), Tail(t))

\* str.strip()
RECURSIVE Strip(_)
Strip(s) ==
    IF s = <<>> THEN s
    ELSE IF s[1] = " " THEN Strip(Tail(s))
    ELSE IF s[Len(s)] = " " THEN Strip(SubSeq(s, 1, Len(s) - 1))
    ELSE s

Digits == <<"0", "1", "2", "3", "4", "5", "6", "7", "8", "9">>

IsDigit(c) == \E i \in DOMAIN Digits : Digits[i] = c

DigitVal(c) == (CHOOSE i \in DOMAIN Digits : Digits[i] = c) - 1

RECURSIVE DigitsVal(_)
DigitsVal(s) ==
    IF s = <<>> THEN 0
    ELSE 10 * DigitsVal(SubSeq(s, 1, Len(s) - 1)) + DigitVal(s[Len(s)])

\* the text after the surrounding blanks and an optional sign
Unsigned(s) ==
    LET t == Strip(s)
    IN IF t # <<>> /\ t[1] = "-" THEN Tail(t) ELSE t

\* int(s) does not raise ValueError
IsInt(s) ==
    /\ Unsigned(s) # <<>>
    /\ \A i \in DOMAIN Unsigned(s) : IsDigit(Unsigned(s)[i])

\* int(s)
IntOf(s) ==
    LET t == Strip(s)
    IN IF t[1] = "-" THEN 0 - DigitsVal(Unsigned(s)) ELSE DigitsVal(Unsigned(s))

\* str(None), str(True), str(False)
NoneStr  == <<"N", "o", "n", "e">>
TrueStr  == <<"T", "r", "u", "e">>
FalseStr == <<"F", "a", "l", "s", "e">>

-----------------------------------------------------------------------------
(* Python dictionaries are functions from keys to values; {} is the empty  *)
(* function.                                                               *)

EmptyDict == [k \in {} |-> <<>>]

\* "%s" % d.get(k): the value, "None" for a missing key, "True"/"False" for
\* the boolean stored under 'ood'
StrGet(d, k) ==
    IF k \notin DOMAIN d THEN NoneStr
    ELSE IF k = "ood" THEN (IF d[k] THEN TrueStr ELSE FalseStr)
    ELSE d[k]

Range(f) == {f[i] : i \in DOMAIN f}

-----------------------------------------------------------------------------
(* minidom *)

\* Element.getAttribute: the value, '' when the attribute is absent
getAttribute(node, a) ==
    IF a \in DOMAIN node.attrs THEN node.attrs[a] ELSE <<>>

-----------------------------------------------------------------------------
(* ExCrawler.getObjInfo *)

\* the try block raises: no child (IndexError), a first child that is not an
\* element and so has no getAttribute (AttributeError), int() of a version
\* attribute fails (ValueError)
getObjInfoRaises(obj) ==
    \/ obj.childNodes = <<>>
    \/ obj.childNodes[1].nodeType # "Element"
    \/ ~IsInt(getAttribute(obj.childNodes[1], "objHighest"))
    \/ ~IsInt(getAttribute(obj.childNodes[1], "objVer"))

\* a plausible slip: the versions compared as text, without int()
getObjInfoTextCompare(obj) ==
    IF getObjInfoRaises(obj) THEN EmptyDict
    ELSE LET attrs == obj.childNodes[1]
         IN [name       |-> getAttribute(obj, "name"),
             shotVer    |-> getAttribute(attrs, "shotVer"),
             mb         |-> getAttribute(attrs, "mb"),
             objName    |-> getAttribute(attrs, "objName"),
             objVer     |-> getAttribute(attrs, "objVer"),
             objHighest |-> getAttribute(attrs, "objHighest"),
             ood        |-> StrLess(getAttribute(attrs, "objVer"),
                                    getAttribute(attrs, "objHighest"))]

getObjInfo(obj) ==
    IF getObjInfoRaises(obj) THEN EmptyDict
    ELSE LET attrs == obj.childNodes[1]
         IN [name       |-> getAttribute(obj, "name"),
             shotVer    |-> getAttribute(attrs, "shotVer"),
             mb         |-> getAttribute(attrs, "mb"),
             objName    |-> getAttribute(attrs, "objName"),
             objVer     |-> getAttribute(attrs, "objVer"),
             objHighest |-> getAttribute(attrs, "objHighest"),
             ood        |-> IntOf(getAttribute(attrs, "objHighest"))
                              > IntOf(getAttribute(attrs, "objVer"))]

-----------------------------------------------------------------------------
(* ExCrawler.getShotList *)

AllStr  == <<"a", "l", "l">>
NoneArg == <<"n", "o", "n", "e">>

\* os.listdir inside try/except: [] when the directory cannot be listed
listdir(dir) == IF dir.listable THEN dir.entries ELSE <<>>

\* lines 67-73: the list after the include step
IncludeStep(entries, includeShots, defaultShot) ==
    IF includeShots # <<>>
    THEN IF ~Contains(AllStr, Lower(includeShots))
         THEN SelectSeq(entries,
                        LAMBDA s : \E i \in Range(Split(includeShots)) :
                                       Contains(i, s))
         ELSE entries
    ELSE <<defaultShot>>

\* lines 75-78
ExcludeStep(entries, excludeShots) ==
    IF excludeShots # <<>> /\ NoneArg # Lower(excludeShots)
    THEN SelectSeq(entries,
                   LAMBDA s : ~ \E x \in Range(Split(excludeShots)) :
                                    Contains(x, s))
    ELSE entries

\* a plausible slip: the except branch falls back to the default shot
getShotListFallback(dir, includeShots, excludeShots, defaultShot) ==
    ExcludeStep(IncludeStep(IF dir.listable THEN dir.entries
                                            ELSE <<defaultShot>>,
                            includeShots, defaultShot),
                excludeShots)

getShotList(dir, includeShots, excludeShots, defaultShot) ==
    ExcludeStep(IncludeStep(listdir(dir), includeShots, defaultShot),
                excludeShots)

-----------------------------------------------------------------------------
(* findShotsWithObjects: filter, sort, printItem *)

\* the condition of the list comprehension of lines 97-99
Keep(ob, filters) ==
    \/ \E i \in DOMAIN filters : Contains(filters[i], ob["objName"])
    \/ \E i \in DOMAIN filters : Contains(filters[i], ob["name"])

\* obj in ob.get('objName') raises TypeError when the key is missing
FilterRaises(obs, filters) ==
    /\ filters # <<>>
    /\ \E i \in DOMAIN obs : "objName" \notin DOMAIN obs[i]

\* a plausible slip: the cull is left out
FilterKeepsAll(obs, filters) == obs

\* lines 96-99
Filter(obs, filters) ==
    IF filters = <<>> THEN obs
    ELSE SelectSeq(obs, LAMBDA ob : Keep(ob, filters))

\* k.get('name') of a sorts before that of b; None sorts before every string
NameBefore(a, b) ==
    IF "name" \notin DOMAIN b THEN FALSE
    ELSE IF "name" \notin DOMAIN a THEN TRUE
    ELSE StrLess(a["name"], b["name"])

\* sorted(objects, key=lambda k: k.get('name')): insertion of x after the
\* elements whose name is not greater (the sort is stable)
RECURSIVE InsertByName(_, _)
InsertByName(x, seq) ==
    IF seq = <<>> THEN <<x>>
    ELSE IF NameBefore(x, seq[1]) THEN <<x>> \o seq
    ELSE <<seq[1]>> \o InsertByName(x, Tail(seq))

RECURSIVE SortedByName(_)
SortedByName(seq) ==
    IF seq = <<>> THEN <<>>
    ELSE InsertByName(seq[Len(seq)],
                      SortedByName(SubSeq(seq, 1, Len(seq) - 1)))

\* sorted(self.shotList)
RECURSIVE InsertShot(_, _)
InsertShot(x, seq) ==
    IF seq = <<>> THEN <<x>>
    ELSE IF StrLess(x, seq[1]) THEN <<x>> \o seq
    ELSE <<seq[1]>> \o InsertShot(x, Tail(seq))

RECURSIVE SortedShots(_)
SortedShots(seq) ==
    IF seq = <<>> THEN <<>>
    ELSE InsertShot(seq[Len(seq)],
                    SortedShots(SubSeq(seq, 1, Len(seq) - 1)))

\* the line printItem prints; the paddings are left out, objHighest is
\* printed on an OOD line only
printItem(item, s) ==
    LET isOod == "ood" \in DOMAIN item /\ item["ood"]
    IN [kind       |-> "item",
        forShot    |-> s,
        name       |-> StrGet(item, "name"),
        shotVer    |-> StrGet(item, "shotVer"),
        objName    |-> StrGet(item, "objName"),
        status     |-> IF isOod THEN "OOD" ELSE "current",
        objVer     |-> StrGet(item, "objVer"),
        objHighest |-> IF isOod THEN StrGet(item, "objHighest") ELSE <<>>,
        mb         |-> StrGet(item, "mb")]

-----------------------------------------------------------------------------
(* sqliteDB *)

\* a plausible slip: the table is created (afresh) on every connect
dbConnectRecreate(d) ==
    [exists |-> TRUE, table |-> TRUE, rows |-> <<>>, tx |-> <<>>]

\* dbConnect: sqlite3.connect creates the file; the table is created only
\* when the file did not exist
dbConnect(d) ==
    IF d.exists THEN d
    ELSE [exists |-> TRUE, table |-> TRUE, rows |-> <<>>, tx |-> <<>>]

\* the values the INSERT statement of sqliteDB.insert is formatted with
insertRow(char) ==
    [shot       |-> StrGet(char, "shot"),
     name       |-> StrGet(char, "name"),
     objProd    |-> StrGet(char, "objProd"),
     shotVer    |-> StrGet(char, "shotVer"),
     objVer     |-> StrGet(char, "objVer"),
     objHighest |-> StrGet(char, "objHighest"),
     ood        |-> StrGet(char, "ood"),
     mayafile   |-> StrGet(char, "mb")]

\* cur.execute raises: the table is missing, or a value holds a double quote,
\* which ends its "..." literal early and leaves a malformed statement
insertRaises(d, char) ==
    \/ ~d.table
    \/ \E c \in DOMAIN insertRow(char) : Contains(<<"\"">>, insertRow(char)[c])

-----------------------------------------------------------------------------
(* The inputs the program is run on *)

sa   == <<"s", "a">>
sb   == <<"s", "b">>
hall == <<"h", "a", "l", "l">>
sys  == <<"s", "y", "s">>
zz   == <<"z", "z">>

ShotNames == {sa, sb, hall, sys, zz}

\* <Object name=...><x shotVer=... objName=... objHighest=... objVer=... mb=.../></Object>
Obj(name, shotVer, objName, objHighest, objVer) ==
    [attrs      |-> [name |-> name],
     childNodes |-> <<[nodeType |-> "Element",
                       attrs    |-> [shotVer    |-> shotVer,
                                     objName    |-> objName,
                                     objHighest |-> objHighest,
                                     objVer     |-> objVer,
                                     mb         |-> <<"m">>]]>>]

\* out of date: version 9 of 10
nodeCharA == Obj(<<"c", "A">>, <<"3">>, <<"R", "i", "g">>, <<"1", "0">>, <<"9">>)
\* current: version 2 of 2
nodeProp  == Obj(<<"b", "1">>, <<"1">>, <<"R", "i", "g">>, <<"2">>, <<"2">>)
\* <Object name="n0"/>: no child
nodeNoChild == [attrs |-> [name |-> <<"n", "0">>], childNodes |-> <<>>]
\* an indented document: the first child of the Object is a text node
nodeText ==
    [attrs      |-> [name |-> <<"n", "1">>],
     childNodes |-> <<[nodeType |-> "Text"]>> \o nodeProp.childNodes]
\* no name attribute on the Object, none of shotVer, objName, mb on the child
nodeNoName ==
    [attrs      |-> EmptyDict,
     childNodes |-> <<[nodeType |-> "Element",
                       attrs    |-> [objHighest |-> <<" ", "3">>,
                                     objVer     |-> <<"-", "1">>]]>>]
\* a name that holds a double quote
nodeQuote == Obj(<<"a", "\"">>, <<"1">>, <<"R", "i", "g">>, <<"3">>, <<"3">>)
\* objVer is not a number
nodeNonInt == Obj(<<"c", "x">>, <<"1">>, <<"R", "i", "g">>, <<"3">>, <<"x">>)
\* no objHighest attribute
nodeNoHighest ==
    [attrs      |-> [name |-> <<"c", "h">>],
     childNodes |-> <<[nodeType |-> "Element",
                       attrs    |-> [shotVer |-> <<"1">>,
                                     objName |-> <<"R", "i", "g">>,
                                     objVer  |-> <<"1">>,
                                     mb      |-> <<"m">>]]>>]

NodeSamples == <<nodeCharA, nodeProp, nodeNoChild, nodeNoName, nodeText,
                 nodeQuote, nodeNonInt, nodeNoHighest>>

\* a document minidom.parse raises on (missing file, malformed XML)
Unparseable == [parses |-> FALSE, objects |-> <<>>]

Document(nodes) == [parses |-> TRUE, objects |-> nodes]

\* the documents: unparseable, without Object nodes, and every run of at
\* most MaxNodes consecutive samples
Documents ==
    {Unparseable, Document(<<>>)} \cup
    UNION {{Document(SubSeq(NodeSamples, i, j)) :
               j \in {k \in DOMAIN NodeSamples : k >= i /\ k - i < MaxNodes}} :
           i \in DOMAIN NodeSamples}

SecondDocuments ==
    {Unparseable, Document(<<>>), Document(<<nodeProp, nodeCharA>>),
     Document(<<nodeNoChild>>)}

ObjectFilters ==
    {<<>>, << <<"c">> >>, << <<"z">>, <<"g">> >>}

IncludeSamples ==
    {<<>>, AllStr, <<"A", "L", "L">>, hall, sa, <<"s", "b", " ", "x">>,
     <<"x", " ", " ", "a", "l", "l">>, <<" ">>}

ExcludeSamples ==
    {<<>>, NoneArg, <<"N", "o", "n", "e">>, sys,
     <<"s", "a", " ", "h", "a", "l", "l">>}

\* the store file is absent before the first invocation
NoStore == [exists |-> FALSE, table |-> FALSE, rows |-> <<>>, tx |-> <<>>]

NoShot == <<>>

\* a result slot pool.map has not filled yet
Pending == [pending |-> TRUE]

\* the state of a fresh process
Fresh ==
    /\ pc = "new"
    /\ shotList = <<>>
    /\ included = <<>>
    /\ todo = <<>>
    /\ shot = NoShot
    /\ childList = <<>>
    /\ taskNext = 1
    /\ worker = [w \in 1..PoolSize |-> 0]
    /\ result = <<>>
    /\ objData = <<>>
    /\ nextRow = 1
    /\ objects = <<>>
    /\ out = <<>>
    /\ commits = 0

\* two shots with any documents, crawled in both modes
InitCrawl ==
    /\ \E listable \in BOOLEAN, d1 \in Documents, d2 \in SecondDocuments :
          fs = [listable |-> listable,
                entries  |-> <<sb, sa>>,
                xml      |-> [n \in ShotNames |->
                                 IF n = sa THEN d1
                                 ELSE IF n = sb THEN d2 ELSE Unparseable]]
    /\ \E inc \in {<<>>, AllStr}, flt \in ObjectFilters,
          useDB \in BOOLEAN, verbose \in BOOLEAN :
          /\ fs.listable \/ inc = <<>>
          /\ args = [shot    |-> sa,
                     include |-> inc,
                     exclude |-> sys,
                     objects |-> flt,
                     db      |-> useDB,
                     verbose |-> verbose]

\* a show of four shots with fixed documents, any include and exclude
InitList ==
    /\ \E listable \in BOOLEAN :
          fs = [listable |-> listable,
                entries  |-> <<sb, hall, sa, sys>>,
                xml      |-> [n \in ShotNames |->
                                 CASE n = sa   -> Document(<<nodeCharA>>)
                                   [] n = hall -> Document(<<nodeProp, nodeCharA>>)
                                   [] n = sys  -> Document(<<>>)
                                   [] OTHER    -> Unparseable]]
    /\ \E inc \in IncludeSamples, exc \in ExcludeSamples, dflt \in {sa, zz} :
          args = [shot    |-> dflt,
                  include |-> inc,
                  exclude |-> exc,
                  objects |-> <<>>,
                  db      |-> TRUE,
                  verbose |-> FALSE]

Init ==
    /\ InitCrawl \/ InitList
    /\ Fresh
    /\ run = 1
    /\ db = NoStore
    /\ rowsAtEnd = <<>>

-----------------------------------------------------------------------------
(* The driver thread *)

\* ExCrawler.__init__ (args.show is set, so line 47 is not reached)
Construct ==
    /\ pc = "new"
    /\ included' = IncludeStep(listdir(fs), args.include, args.shot)
    /\ shotList' = getShotList(fs, args.include, args.exclude, args.shot)
    /\ pc' = "start"
    /\ UNCHANGED <<args, fs, run, todo, shot, childList, taskNext, worker,
                   result, objData, nextRow, objects, out, db, commits,
                   rowsAtEnd>>

\* findShotsWithObjects, lines 83-86
Begin ==
    /\ pc = "start"
    /\ out' = Append(out, [kind |-> "plan", n |-> Len(shotList)])
    /\ db' = IF args.db THEN dbConnect(db) ELSE db
    /\ todo' = SortedShots(shotList)
    /\ pc' = "loop"
    /\ UNCHANGED <<args, fs, run, shotList, included, shot, childList,
                   taskNext, worker, result, objData, nextRow, objects,
                   commits, rowsAtEnd>>

\* what lines 88-91 print for a shot
ShotHeader(s) ==
    <<[kind |-> "header", forShot |-> s]>>
    \o (IF args.verbose THEN <<>> ELSE <<[kind |-> "shot", forShot |-> s]>>)

\* the next shot, whose document does not parse: shotXML_objectsGet returns
\* None (l.126) and shotObjects returns {} (l.111)
LoadFails ==
    /\ pc = "loop"
    /\ todo # <<>>
    /\ ~fs.xml[Head(todo)].parses
    /\ shot' = Head(todo)
    /\ todo' = Tail(todo)
    /\ out' = out \o ShotHeader(Head(todo))
    /\ childList' = <<>>
    /\ objData' = <<>>
    /\ pc' = "filter"
    /\ UNCHANGED <<args, fs, run, shotList, included, taskNext, worker,
                   result, nextRow, objects, db, commits, rowsAtEnd>>

\* the next shot, whose document parses: its Object nodes are handed to a
\* new pool (l.128-132)
LoadDocument ==
    /\ pc = "loop"
    /\ todo # <<>>
    /\ fs.xml[Head(todo)].parses
    /\ shot' = Head(todo)
    /\ todo' = Tail(todo)
    /\ out' = out \o ShotHeader(Head(todo))
    /\ childList' = fs.xml[Head(todo)].objects
    /\ taskNext' = 1
    /\ worker' = [w \in 1..PoolSize |-> 0]
    /\ result' = [i \in DOMAIN fs.xml[Head(todo)].objects |-> Pending]
    /\ objData' = <<>>
    /\ pc' = "map"
    /\ UNCHANGED <<args, fs, run, shotList, included, nextRow, objects, db,
                   commits, rowsAtEnd>>

\* a plausible slip: the driver goes on once every task has been handed
\* out (the lazy imap in place of map)
MapDoneEarly(slots, next) == next > Len(slots)

\* pool.map returns: every result slot is filled
MapDone(slots, next) == \A i \in DOMAIN slots : slots[i] # Pending

\* pool.map returns the results in the order of childList (l.132)
MapReturn ==
    /\ pc = "map"
    /\ MapDone(result, taskNext)
    /\ objData' = result
    /\ pc' = "stamp"
    /\ UNCHANGED <<args, fs, run, shotList, included, todo, shot, childList,
                   taskNext, worker, result, nextRow, objects, out, db,
                   commits, rowsAtEnd>>

\* [obj.update({'shot': shot}) for obj in objData] (l.135)
Stamped(obs, s) == [i \in DOMAIN obs |-> ("shot" :> s) @@ obs[i]]

Stamp ==
    /\ pc = "stamp"
    /\ objData' = Stamped(objData, shot)
    /\ nextRow' = 1
    /\ pc' = IF args.db THEN "insert" ELSE "filter"
    /\ UNCHANGED <<args, fs, run, shotList, included, todo, shot, childList,
                   taskNext, worker, result, objects, out, db, commits,
                   rowsAtEnd>>

\* a plausible slip: the sink is handed the records the filter keeps
PersistedFiltered(obs, filters) ==
    IF FilterRaises(obs, filters) THEN obs ELSE Filter(obs, filters)

\* the records handed to the sink, for char in objData (l.139): all of them,
\* the object-name filters play no part in shotXML_objectsGet
Persisted(obs, filters) == obs

\* self.db.insert(char) for the next record of objData: the statement is
\* printed (l.228), then executed in the connection's open transaction
Insert ==
    /\ pc = "insert"
    /\ nextRow <= Len(Persisted(objData, args.objects))
    /\ LET char == Persisted(objData, args.objects)[nextRow]
       IN /\ ~insertRaises(db, char)
          /\ out' = Append(out, [kind |-> "sql", forShot |-> shot,
                                 row |-> insertRow(char)])
          /\ db' = [db EXCEPT !.tx = Append(@, insertRow(char))]
    /\ nextRow' = nextRow + 1
    /\ UNCHANGED <<args, fs, pc, run, shotList, included, todo, shot,
                   childList, taskNext, worker, result, objData, objects,
                   commits, rowsAtEnd>>

\* the process ends on an uncaught exception: the open transaction is lost
Crashed(d) == [d EXCEPT !.tx = <<>>]

\* cur.execute raises sqlite3.OperationalError, which nothing catches
InsertRaises ==
    /\ pc = "insert"
    /\ nextRow <= Len(Persisted(objData, args.objects))
    /\ LET char == Persisted(objData, args.objects)[nextRow]
       IN /\ insertRaises(db, char)
          /\ out' = Append(out, [kind |-> "sql", forShot |-> shot,
                                 row |-> insertRow(char)])
    /\ db' = Crashed(db)
    /\ rowsAtEnd' = Append(rowsAtEnd, Len(db.rows))
    /\ pc' = "crashed"
    /\ UNCHANGED <<args, fs, run, shotList, included, todo, shot, childList,
                   taskNext, worker, result, objData, nextRow, objects,
                   commits>>

\* self.db.commit() after the last insert of the shot (l.141)
Commit ==
    /\ pc = "insert"
    /\ nextRow > Len(Persisted(objData, args.objects))
    /\ db' = [db EXCEPT !.rows = @ \o db.tx, !.tx = <<>>]
    /\ commits' = commits + 1
    /\ pc' = "filter"
    /\ UNCHANGED <<args, fs, run, shotList, included, todo, shot, childList,
                   taskNext, worker, result, objData, nextRow, objects, out,
                   rowsAtEnd>>

\* lines 93-103: the shot's records are culled, sorted and printed
FilterAndPrint ==
    /\ pc = "filter"
    /\ ~FilterRaises(objData, args.objects)
    /\ objects' = Filter(objData, args.objects)
    /\ out' = out \o [i \in DOMAIN Filter(objData, args.objects) |->
                        printItem(SortedByName(Filter(objData, args.objects))[i],
                                  shot)]
    /\ pc' = "loop"
    /\ UNCHANGED <<args, fs, run, shotList, included, todo, shot, childList,
                   taskNext, worker, result, objData, nextRow, db, commits,
                   rowsAtEnd>>

\* the comprehension of lines 97-99 raises TypeError, which nothing catches
FilterFails ==
    /\ pc = "filter"
    /\ FilterRaises(objData, args.objects)
    /\ db' = Crashed(db)
    /\ rowsAtEnd' = Append(rowsAtEnd, Len(db.rows))
    /\ pc' = "crashed"
    /\ UNCHANGED <<args, fs, run, shotList, included, todo, shot, childList,
                   taskNext, worker, result, objData, nextRow, objects, out,
                   commits>>

\* the loop is over: time.sleep(0.1); return True
Finish ==
    /\ pc = "loop"
    /\ todo = <<>>
    /\ rowsAtEnd' = Append(rowsAtEnd, Len(db.rows))
    /\ pc' = "done"
    /\ UNCHANGED <<args, fs, run, shotList, included, todo, shot, childList,
                   taskNext, worker, result, objData, nextRow, objects, out,
                   db, commits>>

\* the program is run again on the same inputs and the same store
Rerun ==
    /\ pc \in {"done", "crashed"}
    /\ run < MaxRuns
    /\ run' = run + 1
    /\ pc' = "new"
    /\ shotList' = <<>>
    /\ included' = <<>>
    /\ todo' = <<>>
    /\ shot' = NoShot
    /\ childList' = <<>>
    /\ taskNext' = 1
    /\ worker' = [w \in 1..PoolSize |-> 0]
    /\ result' = <<>>
    /\ objData' = <<>>
    /\ nextRow' = 1
    /\ objects' = <<>>
    /\ out' = <<>>
    /\ commits' = 0
    /\ UNCHANGED <<args, fs, db, rowsAtEnd>>

-----------------------------------------------------------------------------
(* The worker threads of the pool *)

\* an idle worker takes the next task of the queue
WorkerTake(w) ==
    /\ pc = "map"
    /\ worker[w] = 0
    /\ taskNext <= Len(childList)
    /\ worker' = [worker EXCEPT ![w] = taskNext]
    /\ taskNext' = taskNext + 1
    /\ UNCHANGED <<args, fs, pc, run, shotList, included, todo, shot,
                   childList, result, objData, nextRow, objects, out, db,
                   commits, rowsAtEnd>>

\* a worker finishes its task: getObjInfo of the node fills the result slot
WorkerFinish(w) ==
    /\ worker[w] # 0
    /\ result' = [result EXCEPT ![worker[w]] = getObjInfo(childList[worker[w]])]
    /\ worker' = [worker EXCEPT ![w] = 0]
    /\ UNCHANGED <<args, fs, pc, run, shotList, included, todo, shot,
                   childList, taskNext, objData, nextRow, objects, out, db,
                   commits, rowsAtEnd>>

Next ==
    \/ Construct
    \/ Begin
    \/ LoadFails
    \/ LoadDocument
    \/ \E w \in 1..PoolSize : WorkerTake(w)
    \/ \E w \in 1..PoolSize : WorkerFinish(w)
    \/ MapReturn
    \/ Stamp
    \/ Insert
    \/ InsertRaises
    \/ Commit
    \/ FilterAndPrint
    \/ FilterFails
    \/ Finish
    \/ Rerun

Spec == Init /\ [][Next]_vars

-----------------------------------------------------------------------------
(* Vocabulary of the properties *)

\* the keys of a record getObjInfo builds, once stamped
RecordKeys == {"name", "shotVer", "mb", "objName", "objVer", "objHighest",
               "ood", "shot"}

\* a node is well formed: it has a name and its first child is an element
\* with the five attributes, the two versions being integers
WellFormed(obj) ==
    /\ ~getObjInfoRaises(obj)
    /\ "name" \in DOMAIN obj.attrs
    /\ {"shotVer", "objName", "mb"} \subseteq DOMAIN obj.childNodes[1].attrs

\* the well-formed Object nodes of the current shot
Extracted == {i \in DOMAIN childList : WellFormed(childList[i])}

\* the lines of a kind printed for shot s
LinesFor(s, kind) ==
    {i \in DOMAIN out : out[i].kind = kind /\ out[i].forShot = s}

\* shotXML_objectsGet has returned for the current shot
Returned == pc \in {"insert", "filter", "loop"} /\ shot # NoShot

\* an extraction worker of the current shot is running
Busy == \E w \in 1..PoolSize : worker[w] # 0

\* the shots of the list the loop has finished with before the current one
Earlier == {s \in Range(shotList) : s \notin Range(todo) /\ s # shot}

\* seq is an initial part of longer
IsPrefix(seq, longer) ==
    /\ Len(seq) <= Len(longer)
    /\ \A i \in DOMAIN seq : seq[i] = longer[i]

\* every record of the current shot fails the object-name filters
NoneKept ==
    \A i \in DOMAIN objData :
        args.objects # <<>> /\ ~Keep(objData[i], args.objects)

-----------------------------------------------------------------------------
(* C1 *)

\* C1: a node whose extraction fails (no child, a required attribute
\* missing, a version that is no integer) leaves no record behind: the
\* per-shot result holds one fully populated record per well-formed node
\* and nothing else, and no more rows are inserted or item lines printed
\* for the shot than there are well-formed nodes.
C1_FailedNodeLeavesNoRecord ==
    Returned =>
        /\ Len(objData) = Cardinality(Extracted)
        /\ \A i \in DOMAIN objData : DOMAIN objData[i] = RecordKeys
        /\ Len(db.tx) <= Cardinality(Extracted)
        /\ Cardinality(LinesFor(shot, "item")) <= Cardinality(Extracted)

-----------------------------------------------------------------------------
(* C2 *)

\* C2 as stated: with persistence and object-name filters, every row
\* inserted belongs to a record that passes the filter.
C2_OnlyFilteredRowsInserted ==
    (pc = "insert" /\ args.db /\ args.objects # <<>>) =>
        \A k \in DOMAIN db.tx :
            "name" \in DOMAIN objData[k] => Keep(objData[k], args.objects)

\* C2 amended: with persistence enabled the rows inserted for a shot are the
\* rows of every record of the unfiltered per-shot result, one per Object
\* node and in node order, whatever the object-name filters are.
C2_AllRecordsInserted ==
    /\ pc = "insert" =>
          /\ Len(db.tx) = nextRow - 1
          /\ \A k \in DOMAIN db.tx :
                /\ db.tx[k].shot = shot
                /\ db.tx[k].name = StrGet(getObjInfo(childList[k]), "name")
    /\ (pc = "filter" /\ args.db /\ fs.xml[shot].parses) =>
          /\ Len(db.rows) >= Len(childList)
          /\ \A k \in DOMAIN childList :
                LET row == db.rows[Len(db.rows) - Len(childList) + k]
                IN /\ row.shot = shot
                   /\ row.name = StrGet(getObjInfo(childList[k]), "name")

\* a record the filter rejects has been committed to the store
C2_Witness ==
    /\ pc = "filter"
    /\ args.db
    /\ args.objects # <<>>
    /\ ~FilterRaises(objData, args.objects)
    /\ \E k \in DOMAIN objData :
          /\ ~Keep(objData[k], args.objects)
          /\ db.rows[Len(db.rows) - Len(objData) + k].name = objData[k]["name"]

-----------------------------------------------------------------------------
(* C3 *)

\* C3: for a non-empty include string, every entry passes the include step
\* when one of its space-separated patterns is 'all' (case-insensitive), and
\* otherwise exactly the entries holding one of the patterns pass.
C3_IncludeSentinelIsAPattern ==
    (pc # "new" /\ args.include # <<>>) =>
        included =
            IF \E p \in Range(Split(args.include)) : Lower(p) = AllStr
            THEN listdir(fs)
            ELSE SelectSeq(listdir(fs),
                           LAMBDA s : \E p \in Range(Split(args.include)) :
                                          Contains(p, s))

-----------------------------------------------------------------------------
(* C4 *)

-----------------------------------------------------------------------------
(* C5 *)

\* C5: the crawl never raises over an unparseable document or a malformed
\* Object node (the one uncaught exception left is the store rejecting a
\* statement), and a crawl that ends has visited every shot of the list.
C5_CrawlSurvivesMalformedInput ==
    /\ pc = "crashed" =>
          /\ args.db
          /\ nextRow <= Len(objData)
          /\ insertRaises(db, objData[nextRow])
    /\ pc = "done" =>
          \A s \in Range(shotList) : LinesFor(s, "header") # {}

-----------------------------------------------------------------------------
(* C6 *)

\* C6 as stated: a shot none of whose records is kept prints nothing at
\* all, no header line, no shot-name line, no record line.
C6_EmptyShotPrintsNothing ==
    (pc = "loop" /\ shot # NoShot /\ NoneKept) =>
        \A i \in DOMAIN out : out[i].kind = "plan" \/ out[i].forShot # shot

\* C6 amended: a shot none of whose records is kept prints no record line;
\* its header line is printed all the same, and so is its shot-name line
\* unless the run is verbose; with persistence enabled the INSERT statement
\* of each of its unfiltered records is printed too.
C6_EmptyShotPrintsHeaderOnly ==
    (pc = "loop" /\ shot # NoShot /\ NoneKept) =>
        /\ objects = <<>>
        /\ LinesFor(shot, "item") = {}
        /\ Cardinality(LinesFor(shot, "header")) = 1
        /\ Cardinality(LinesFor(shot, "shot")) = IF args.verbose THEN 0 ELSE 1
        /\ Cardinality(LinesFor(shot, "sql")) =
              IF args.db THEN Len(objData) ELSE 0

\* a shot with records, all of them culled by the filter, has been reported
C6_Witness ==
    /\ pc = "loop"
    /\ shot # NoShot
    /\ objData # <<>>
    /\ NoneKept

-----------------------------------------------------------------------------
(* C7 *)

\* the committed rows at the end of invocation k are k times those of the
\* first; once the store is in use its table is there
C7_RowsMultiply ==
    /\ \A k \in DOMAIN rowsAtEnd : rowsAtEnd[k] = k * rowsAtEnd[1]
    /\ (args.db /\ pc \notin {"new", "start"}) => db.exists /\ db.table

\* an existing store is never re-created or truncated: its committed rows
\* stay, in place
C7_StoreKept ==
    db.exists => /\ db'.exists
                 /\ db'.table = db.table
                 /\ IsPrefix(db.rows, db'.rows)

\* C7: running the crawl again with persistence against the same store and
\* the same inputs multiplies the rows of one run (twice the rows after two
\* runs): the table is created on first use, an existing store is reused
\* without being re-created or truncated, and nothing is deduplicated.
C7_RerunDoublesRows == [] C7_RowsMultiply /\ [][C7_StoreKept]_vars

\* the second invocation has ended on a store the first left rows in
C7_Witness ==
    /\ run = 2
    /\ pc = "done"
    /\ Len(rowsAtEnd) = 2
    /\ rowsAtEnd[1] > 0
    /\ Len(db.rows) = 2 * rowsAtEnd[1]

-----------------------------------------------------------------------------
(* C8 *)

\* the flag of a record agrees with its two version fields
FlagFresh(rec) ==
    "ood" \in DOMAIN rec =>
        rec["ood"] = (IntOf(rec["objHighest"]) > IntOf(rec["objVer"]))

\* C8: every record getObjInfo extracts has ood = (objHighest > objVer) as
\* integers, and so have the record when it is printed (an OOD line exactly
\* for an out-of-date record) and the row it is persisted as.
C8_OutOfDateFlagFresh ==
    /\ \A i \in DOMAIN result : FlagFresh(result[i])
    /\ \A i \in DOMAIN objData : FlagFresh(objData[i])
    /\ \A i \in DOMAIN objects : FlagFresh(objects[i])
    /\ (pc = "loop" /\ shot # NoShot) =>
          /\ Len(out) >= Len(objects)
          /\ \A k \in DOMAIN objects :
                LET line == out[Len(out) - Len(objects) + k]
                    item == SortedByName(objects)[k]
                IN "ood" \in DOMAIN item =>
                      /\ line.kind = "item"
                      /\ line.objVer = item["objVer"]
                      /\ (line.status = "OOD") =
                            (IntOf(item["objHighest"]) > IntOf(item["objVer"]))
                      /\ line.status = "OOD" =>
                            line.objHighest = item["objHighest"]
    /\ \A i \in DOMAIN (db.rows \o db.tx) :
          LET row == (db.rows \o db.tx)[i]
          IN row.ood # NoneStr =>
                row.ood = IF IntOf(row.objHighest) > IntOf(row.objVer)
                          THEN TrueStr ELSE FalseStr

\* an out-of-date record (version 9 of 10) has been printed and committed
C8_Witness ==
    /\ \E i \in DOMAIN out :
          /\ out[i].kind = "item"
          /\ out[i].status = "OOD"
          /\ out[i].objVer = <<"9">>
    /\ \E i \in DOMAIN db.rows :
          /\ db.rows[i].ood = TrueStr
          /\ db.rows[i].objHighest = <<"1", "0">>

-----------------------------------------------------------------------------
(* C9 *)

\* C9: the row inserted for a well-formed record carries the record's own
\* values, column by column, with objProd the record's object name.
C9_RowCarriesRecord ==
    pc = "insert" =>
        \A k \in DOMAIN db.tx :
            DOMAIN objData[k] = RecordKeys =>
                /\ db.tx[k].shot = objData[k]["shot"]
                /\ db.tx[k].name = objData[k]["name"]
                /\ db.tx[k].objProd = objData[k]["objName"]
                /\ db.tx[k].shotVer = objData[k]["shotVer"]
                /\ db.tx[k].objVer = objData[k]["objVer"]
                /\ db.tx[k].objHighest = objData[k]["objHighest"]
                /\ db.tx[k].ood = IF objData[k]["ood"] THEN TrueStr ELSE FalseStr
                /\ db.tx[k].mayafile = objData[k]["mb"]

-----------------------------------------------------------------------------
(* C10 *)

\* while a worker runs the driver waits in pool.map with nothing stamped
\* and no open transaction; when extraction of a shot is under way, every
\* earlier shot whose document parsed has been committed exactly once
C10_DriverWaits ==
    /\ Busy => pc = "map"
    /\ pc = "map" =>
          /\ objData = <<>>
          /\ db.tx = <<>>
          /\ args.db => commits = Cardinality({s \in Earlier : fs.xml[s].parses})
          /\ ~args.db => commits = 0 /\ db.rows = <<>>

\* no step taken while a worker runs, and no step that starts a worker,
\* touches the store or the per-shot result
C10_WorkersLeaveStore ==
    (Busy \/ Busy') =>
        /\ db' = db
        /\ commits' = commits
        /\ objData' = objData

\* C10: the pool is a barrier: nothing is stamped, inserted or committed
\* while an extraction worker of the shot runs, only the driver touches the
\* store, and the inserts of a shot are committed once before extraction of
\* the next shot begins.
C10_PoolIsBarrier == [] C10_DriverWaits /\ [][C10_WorkersLeaveStore]_vars

\* both workers extract for a shot while an earlier shot's rows are committed
C10_Witness ==
    /\ pc = "map"
    /\ \A w \in 1..PoolSize : worker[w] # 0
    /\ commits = 1
    /\ db.rows # <<>>

====
